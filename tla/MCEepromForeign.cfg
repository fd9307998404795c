CONSTANTS
  Fields <- MCFields
  Values = {1, 2, 9}
  Usable <- MCUsable
  Default <- MCDefault
  Order <- MCOrder
SPECIFICATION Spec
INVARIANTS ForeignIsNotTrusted
