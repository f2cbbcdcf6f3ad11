CONSTANTS
  Consumers = {c1, c2, c3}
  Items = {1, 2}
  t = 4
  Free = free
  Stop = stop
SPECIFICATION ProdConsSpec
\* The processes end.
CHECK_DEADLOCK FALSE
INVARIANT ItemsAgree
PROPERTY AllEnd
