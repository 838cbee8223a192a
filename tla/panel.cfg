SPECIFICATION Spec
CONSTANTS
  Row = {r1, r2}
  Form = Form
  NoRow = NoRow
  Filter = {f1}
  NoFilter = NoFilter
  MaxClicks = 2
  MaxApplies = 1
INVARIANTS TypeOK FreshList SlotsExplained
SYMMETRY Interchangeable
