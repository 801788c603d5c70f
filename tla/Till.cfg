\* Two customers, one part of which the server has one unit; one payment.
CONSTANTS
  a = a
  b = b
  oil = oil
  NoJob = NoJob
  NoPage = NoPage
  Job = {a, b}
  Part = {oil}
  Service = {}
  Stock = 1
  Default = 2
  MaxQty = 2
  MaxPay = 1
  MaxFetch = 1
  Cashier = FALSE
  Budget = 1
\* The customers are interchangeable, and no property is about liveness.
SPECIFICATION Spec
SYMMETRY Customers
INVARIANTS CartHasCustomer LogIsTrue ListedOnce
PROPERTIES PaidNotOffered
\* Nothing need happen once the payment and the budget are spent.
CHECK_DEADLOCK FALSE
