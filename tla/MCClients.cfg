SPECIFICATION Spec
CONSTANTS
    NotObject = NotObject
    Absent = Absent
    Padded <- MCPadded
    DefaultIds <- MCDefaultIds
    MaxDestinations = 2
    Loads <- MCLoads
    Hosts = {"h1", "h2", "h3"}
    Paces <- MCPaces
    ClientIds = {1, 2}
    RowIds = {"a", "b", "c", "d0", "d1", "d2", "d3"}
    Endpoints = {"e1", "e2"}
    EndpointOf <- MCEndpointOf
    MaxUid = 3
    MaxSeq = 2
    MaxNet = 2
    MaxCookie = 2
INVARIANTS TypeOK TableSound SamplesOwn
PROPERTIES StreamsKept
