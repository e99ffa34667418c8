\* Three handlers, one task and its token.
SPECIFICATION FairSpec
CONSTANTS
  Handlers = {h1, h2, h3}
  Tasks = {t1}
  Tokens = {k1}
  NoToken = NoToken
  NoHandler = NoHandler
INVARIANTS
  TypeOK
  NoConcurrentMapAccess
PROPERTIES
  ImplementsRegister
  EveryCallReturns
