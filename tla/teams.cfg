SPECIFICATION Spec
CONSTANTS
  ann = ann
  bob = bob
  eve = eve
  kim = kim
  link = link
  letter = letter
  demote = demote
  remove = remove
  oust = oust
  send = send
  open1 = open1
  open2 = open2
  open3 = open3
  revoke = revoke
  Users = {ann, bob, eve, kim}
  FirstRole <- MCFirstRole
  Invites = {link, letter}
  Sent = {link}
  Grants <- MCGrants
  Address <- MCAddress
  Anyone = Anyone
  Requests = {demote, remove, oust, send, open1, open2, open3, revoke}
  Op <- MCOp
INVARIANTS
  TypeOK
  AlwaysAnOwner
PROPERTIES
  InviteOnce
CHECK_DEADLOCK FALSE
