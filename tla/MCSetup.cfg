\* Two inits against two chains, overlapping or not, failing anywhere.
CONSTANTS
  Inits = {i1, i2}
  Chain = {main, regtest}
  NoChain = NoChain
SYMMETRY InitSymmetry
CHECK_DEADLOCK FALSE
SPECIFICATION Spec
INVARIANTS SetupTypeOK InitializedIsComplete   
 
