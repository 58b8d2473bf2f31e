SPECIFICATION LiveSpec
CONSTANTS
  Specs <- MCSpecs
  Texts <- MCTexts
  ItemTypes = {}
  Notices = {}
  Methods = {"commandApproval", "input", "unsupported", "can_use_tool"}
  MaxLines = 2
  MaxControls = 1
INVARIANTS
    OutcomeTold
    PermissionKept
    

    
CHECK_DEADLOCK FALSE
