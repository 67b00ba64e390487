SPECIFICATION FairSpec
CONSTANTS
  Sources = {1}
  Signatures = {"x"}
  SignatureOf <- SameSignature
  MaxAttempts = 2
  Processes = {p1, p2}
CHECK_DEADLOCK FALSE
PROPERTY DeferralPickedUp
