\* Runs cut off and repeated over three periods.
CONSTANTS
  employee = employee
  policy = policy
  approved = approved
  submitted = submitted
  rejected = rejected
  annual = annual
  sick = sick
  Absent = Absent
  Ids = {employee, policy, approved, submitted, rejected, annual, sick}
  Order <- OrderMC
  Dated = {approved, submitted, rejected, annual, sick}
  Taken = approved
  Asked = submitted
  Account = annual
  DaysOf <- DaysOfMC
  LastPeriod = 2
SPECIFICATION SeedSpec
INVARIANTS
  SeedTypeOK
  SeededBalanceAgrees
  DoneIsSeeded
  RefusedOverOlder
