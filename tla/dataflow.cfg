SPECIFICATION Spec
CONSTANTS
  Unit = Unit
  NoFun = NoFun
  Programs <- MCProgramSet
  Fun <- MCFun
  MCPrograms = {"nested_input", "two_relations", "semijoin", "join", "streamjoin", "antijoin",
    "map", "delayed", "recursion", "negation", "mutual", "counter"}
  MaxEpochs <- MCEpochs
  MaxUpdates = 2
  DrainBound = 4
INVARIANTS
  TypeOK
  OutputsExact
  NoNegativeWeight
  RendersWellOrdered
  ConvergesInTime
  DrainsInTime
PROPERTIES
  StreamsForget
  EvaluationEnds
