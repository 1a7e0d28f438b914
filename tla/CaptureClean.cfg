\* As SourceCapture, plain files only: does an unmarked copy hold the bytes of the commit it
\* names?
CONSTANTS
  top = top
  lib = lib
  toml = toml
  module = module
  Dirs = {top, lib}
  Root = top
  Up <- MCUp
  Files = {toml, module}
  Dir <- MCDir
  Manifests = {toml}
  Kindings <- Plain
  MaxChanges = 4
  MaxFiles = 2
  MaxDisk = 5
SPECIFICATION Spec
\* the scan stops when it is sealed or refused
CHECK_DEADLOCK FALSE
INVARIANT CleanMeansCommit
