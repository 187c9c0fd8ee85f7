\* Two users, two organizations, two events, two requests at a time.
SPECIFICATION Spec
CONSTANTS
  u1 = u1
  u2 = u2
  o1 = o1
  o2 = o2
  e1 = e1
  e2 = e2
  r1 = r1
  r2 = r2
  blank = blank
  Users <- MCUsers
  Admins <- MCAdmins
  Organizers <- MCOrganizers
  Orgs <- MCOrgs
  Events <- MCEvents
  Bases <- MCBases
  Blank = blank
  MaxSlugRetries = 1
  Requests <- MCRequests
  MaxStaffEdits = 1
SYMMETRY Symmetric
INVARIANT
  OrganizationsInv
PROPERTIES
  ReturnsOnlyByLateSaves
  CreationsFailForAReason
CHECK_DEADLOCK FALSE
