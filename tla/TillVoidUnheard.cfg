\* Two customers, one part of which the server has one unit; one payment.
CONSTANTS
  a = a
  b = b
  oil = oil
  NoJob = NoJob
  NoPage = NoPage
  Job = {a, b}
  Part = {oil}
  Service = {}
  Stock = 1
  Default = 2
  MaxQty = 2
  MaxPay = 1
  MaxFetch = 1
  Cashier = FALSE
  Budget = 1
SPECIFICATION Spec
INVARIANT VoidIsRecorded
CHECK_DEADLOCK FALSE
