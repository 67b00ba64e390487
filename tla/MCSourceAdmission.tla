------------------------- MODULE MCSourceAdmission -------------------------
EXTENDS SourceAdmission
=============================================================================
