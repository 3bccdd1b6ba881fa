\* Two threads build proxies and one registers stubs.
SPECIFICATION TranslatorSpec
CONSTANTS
  Proxies = {u1, u2}
  Stubs = {u3}
  Wanted <- MCWanted
  Announced <- MCAnnounced
  Configurations <- MCConfigurations
  Versions = {"v0_9", "v1_0", "v1_1"}
  DefaultVersion = "v1_0"
  Illegal = {}
  Dashed = {"a-b"}
  MaxBuilt = 4
  NoAddress = NoAddress
SYMMETRY Symmetry
\* The threads stop when everything was built and let go of.
CHECK_DEADLOCK FALSE
INVARIANT TranslatorTypeOK
INVARIANT AnswersFounded
INVARIANT UsersAgree
