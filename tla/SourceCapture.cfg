\* A manifest, a module in a directory, and an owner who changes the source four times.
CONSTANTS
  top = top
  lib = lib
  toml = toml
  module = module
  Dirs = {top, lib}
  Root = top
  Up <- MCUp
  Files = {toml, module}
  Dir <- MCDir
  Manifests = {toml}
  Kindings <- MCKindings
  MaxChanges = 4
  MaxFiles = 2
  MaxDisk = 5
SPECIFICATION Spec
INVARIANT CopyIsSnapshot
INVARIANT DirtyCopyIsMarked
 
\* the scan stops when it is sealed or refused
CHECK_DEADLOCK FALSE
