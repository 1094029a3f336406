SPECIFICATION MCSpec
CONSTANTS
  None = None
  Invoice = {i1, i2}
  Payment = {p1, p2}
  Tx = {t1}
  Request = {r1, r2}
  Fits <- FitsAll
  Named <- FitsAll
  MaxOverlaps = 1
  Editor = page
  EditThread = {w1}
  Cents = {1}
  MaxDocuments = 3
  MaxEdits = 3
  Page = page
  Pool = {w1}
  DocNumber = {n1}
  MaxText = 1
  MaxMails = 1
  MaxRequests = 3
  MaxClock = 1
  PaperFormat = {"fakturek_xml", "fakturek_xml_v2", "foreign"}
  PaperFile = {"f1", "f2"}
  Ext = {"x1", "n1", "n2"}
  PayId = {"p1"}
  PapersOf <- Papers
  DataOf <- Data
  PaperNumber = {1, 2, 3, 4}
  MaxPapers = 4
  MaxPaperWrites = 1
  MailRun = {r1, r2}
  Notice = {1, 2, 3}
  Legible = {1, 3}
  MaxMail = 3
  MaxMailSaves = 2
SYMMETRY Symmetry
CONSTRAINTS UntilOverlapEnds UntilExpunged
INVARIANTS LinksWellFounded DatesFollowStatus PaidHasPayment TransactionPaysOnce TotalOfItems CreditWithinSource MailLog FileOfNumber PaperImportedOnce NoMailSkipped
PROPERTIES SerialPairingKept IssuedStaysIssued WithdrawnStaysWithdrawn NativeImportWhole
CHECK_DEADLOCK FALSE
