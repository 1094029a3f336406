SPECIFICATION MailboxSpec
CONSTANTS
  None = None
  MailRun = {m1}
  Notice = {1, 2, 3}
  Legible = {1, 3}
  MaxMail = 3
  MaxMailSaves = 2
PROPERTIES OnlyNewMail
CHECK_DEADLOCK FALSE
