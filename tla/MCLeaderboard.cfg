\* Two teams, two scenarios, up to three submissions between and during replies.
CONSTANTS
  Teams = {ada, bob}
  Scenarios = {"uniform", "realistic"}
  Weight <- MCWeight
  Stats <- MCStats
  MaxSubmissions = 3
SYMMETRY TeamSymmetry
SPECIFICATION Spec
INVARIANTS
  TypeOK
  ReplyIsConsistent
  OnlyQualifiedRanked
PROPERTIES
  TeamsNeverLoseGround
