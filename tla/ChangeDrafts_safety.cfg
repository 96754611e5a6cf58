SPECIFICATION Spec
CONSTANTS
  Procs = {p1}
  Surfaces = {"policy", "dns", "resources"}
  d1 = d1
  d2 = d2
  Docs = {d1, d2}
  InitialDoc = d2
  KeepRevisions = 50
  MaxControl = 2
  Editors = {e1, e2}
  Drafts = {f1}
  NoDoc = NoDoc
  MaxOpen = 1
  MaxVersion = 3
  Proposals <- MCProposals
  Opens <- MCOpens
SYMMETRY EditorSymmetry
PROPERTIES DraftsHold WholeDraftsAreConfirmed
CHECK_DEADLOCK FALSE
