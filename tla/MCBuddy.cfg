SPECIFICATION Spec
CONSTANTS
  LEAF_SIZE = 2
  MAX_ALIGN = 4
  Ends = {22}
  Metas = {2, 5}
  Layouts = {2, 3, 7}
INVARIANTS MemoryConserved RoomIsFound
