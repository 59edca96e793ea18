SPECIFICATION Spec
CONSTANTS
  RomByte <- MCRomByte
  AutoconfigBytes <- MCAutoconfigBytes
  Setups <- MCSetups
  Program <- MCProgram
  Bases <- MCBases
  RegisterWrites <- MCRegisterWrites
  CopperWrites <- MCCopperWrites
  Requests <- MCRequests
  Probes <- MCProbes
  MaxSteps <- MCMaxSteps
INVARIANTS
  ReadsTrue
  RegistersTruthful
