SPECIFICATION Spec
CONSTANTS
  Types <- MCTypes
  Ports <- MCPorts
  GroupKeys <- MCGroupKeys
  Pending <- MCPending
  Leaves <- MCLeaves
  Wraps <- MCWraps
  TargetTypes <- MCTargetTypes
  Groups <- MCGroups
  MaxDepth = 2
INVARIANTS  ValuesFitTheirTypes EnginesAgree
CHECK_DEADLOCK FALSE
