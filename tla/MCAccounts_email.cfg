SPECIFICATION MCSpec
CONSTANTS
  Emails = {e1}
  Guests = {g1}
  Devices = {d1}
  Requests = {r1, r2}
  NoUser = NoUser
  MaxCodes = 2
  MaxSecond = 1
SYMMETRY Symmetry
PROPERTY ChangedEmailIsUnverified
