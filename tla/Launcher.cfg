SPECIFICATION Spec
CONSTANTS
  Installed <- MCInstalled
  Cli <- MCCli
  Compilable <- MCCompilable
  NewPaths = {"first", "second"}
  GivenPath = "given"
  NoPath = "none"
  MaxSaves = 2
INVARIANTS RestartSame PlayedAsChosen
 
