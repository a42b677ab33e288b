\* One portal page, one admin panel, one sender; channels of capacity one.
SPECIFICATION Spec
CONSTANTS
  Clients = {c1, a1}
  Admins = {a1}
  Devs = {d1}
  Senders = {s1}
  NoDev = NoDev
  NoClient = NoClient
  BufSize = 1
  QueueSize = 1
INVARIANTS TypeOK RegisteredAreOpen
PROPERTIES CallsReturn BrokenPagesForgotten
CHECK_DEADLOCK FALSE
