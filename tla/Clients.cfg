SPECIFICATION Spec
CONSTANTS
  Messages = {m1, m2}
  Kinds = {"stop", "start", "question", "unclear", "person", "file", "voice"}
  RacingKinds = {"stop", "start", "person"}
  Webhooks = {w1, w2}
  Members = {p1}
  Accountant = p1
  OnDuty = Nobody
  Nobody = Nobody
  NoId = NoId
  NoMessage = NoMessage
  MaxCrashes = 1
  MaxActs = 3
  RacingActs = 1
  Sendings = {g1, g2}
  Callbacks = {v1, v2}
  NoSending = NoSending
  Leads = {l1, l2}
  NewClients = {c1, c2, c3}
  Hands = {d1, d2}
  NoClient = NoClient
  NoLead = NoLead
  Papers = {f1, f2, f3, f4}
  Sorts = {k1, k2}
  Uploads = {u1, u2}
  Nothing = Nothing
PROPERTIES ConversationHolds ReceiptsTellTrue EveryMessageArrives EnquiryStands PapersStand
CHECK_DEADLOCK FALSE
