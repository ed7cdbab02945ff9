CONSTANTS
  HalfInt = 4
  HalfOid = 128
  Objects = {x, y}
  core = core
  extra = extra
  ModuleOf <- MCModuleOf
  NumberChars = 2
  Values = {6, 120}
  Numbers = {1, 6, 200}
  MaxTokens = 3
  MaxLen = 3
SPECIFICATION MibSpec
INVARIANT WithoutMibsTheNumbersShow
