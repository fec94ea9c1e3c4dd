CONSTANTS
  m1 = m1
  Mail <- MCMail
  Age <- MCAge
  MaxGen = 2
  MaxActs = 1
  MaxOut = 1
SPECIFICATION FairSpec
INVARIANT InFlightIsOwed
PROPERTIES
  ImplementsMail
  
CHECK_DEADLOCK FALSE
