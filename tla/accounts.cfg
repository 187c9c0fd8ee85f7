\* Three requests for one address, three passwords, three ways to fill the form.
CONSTANTS
  r1 = r1
  r2 = r2
  r3 = r3
  Requests <- MCRequests
  MaxPasswords = 3
  Forms <- MCForms
SYMMETRY MCSymmetry
SPECIFICATION Spec
INVARIANTS
  AccountsInv
  MailedLinkWorks
PROPERTIES
  LinkSpentByUse
  NothingUndone
