SPECIFICATION Spec
CONSTANTS
  r1 = r1  r2 = r2  o1 = o1  o2 = o2  o3 = o3  None = None
  Caller <- TwoCallers
  Obj <- ThreeObjects
INVARIANTS TypeOK ToldIsKept ResultIsComplete
PROPERTIES ActionsKept MailedOnce ImplementsNotebook
CONSTRAINT Bounded
VIEW Seen
SYMMETRY Interchangeable
