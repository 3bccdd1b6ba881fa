\* A thread and the handlers of two connections opened one after the other.
SPECIFICATION Spec
CONSTANTS
  stubA = stubA  stubB = stubB  stubC = stubC
  addressA = addressA  addressB = addressB
  pathA = pathA
  nameA = nameA
  dispatchA = dispatchA  dispatchB = dispatchB
  worker = worker
  None = None
  Root = Root
  Adapters = {stubA, stubB, stubC}
  Addresses = {addressA, addressB}
  AddressOf <- MCAddressOf
  PathOf <- MCPathOf
  NameOf <- MCNameOf
  Paths = {pathA}
  Names = {nameA}
  Managed = {stubC}
  Managing = {stubA, stubB}
  Properties = {stubC}
  Threads = {worker}
  Connections = {1, 2}
  DispatcherOf <- MCDispatcherOf
  Creators = {worker}
  MaxProxies = 1
  MaxFailures = 1
\* The application may stop using the library.
CHECK_DEADLOCK FALSE
INVARIANT TypeOK
INVARIANT RegistrationsAgree
INVARIANT NobodyStuck
