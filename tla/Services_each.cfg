SPECIFICATION ServicesFairSpec
CONSTANTS
  Parts <- Services
  Hooks = {1, 2}
  HookRequests = {1, 2}
  TOLERANCE = 1
  HookSettings <- MCHookSettings
  Senders = {1, 2}
  Notes = {1, 2, 3}
  NOTE_ATTEMPTS = 2
  NOTE_BATCH = 2
  NoteSettings <- MCNoteSettings
  Author = buyer
  Readers = {r1, r2, r3}
  Writers = {1, 2}
  REPORTS_TO_HIDE = 3
  ReviewSettings <- MCReviewSettings
  Registrars = {1, 2}
  Changers = {1, 2}
  MAX_SCANS = 2
  MediaSettings <- MCMediaSettings
  Appenders = {1, 2}
  Contents = {1, 2}
  LOG_BOUND = 3
  AuditSettings <- Utc
  Callers = {1, 2, 3, 4}
  FAILURE_THRESHOLD = 3
  BULKHEAD = 3
  Outlive = FALSE
  Orders = {o1, o2}
  ChargeKeys = {k1, k2, k3}
  Amounts = {1, 2}
  Refunders = {f1, f2}
  Declines = TRUE
  MaxLedger = 4
  NoRefund = NoRefund
  a1 = a1 a1r = a1r a2 = a2 co1 = co1 co1r = co1r co2 = co2 look = look
  pen = pen mug = mug
  Requests <- MCRequests
  KindOf <- MCKind
  KeyOf <- MCKey
  ItemOf <- MCItem
  Products = {pen, mug}
  NoRequest = NoRequest
  NoCart = NoCart
  Settings <- MCSettings
CHECK_DEADLOCK FALSE
INVARIANTS
  WebhookIsSound
  NotificationsAreSound
  ReviewsAreEarned
  ReportsCount
  MediaIsSound
  AuditIsSound
  BreakerIsSound
  RefundsAreSound
  CartIsSound
PROPERTIES
  WorkIsFinished
  ClosesOnceHealthy
