------------------------------ MODULE MCClients ------------------------------
(* Two widgets, and documents that make rows and probers change places, share *)
(* a stream, leave it, and point at another host under the same id.           *)
EXTENDS Clients, ClientFile

Entry(id, address) == [id |-> id, address |-> address, enabled |-> Absent]
Document(interval, entries) ==
    [interval_ms |-> interval, timeout_ms |-> Absent, destinations |-> entries]

\* The first widget's documents and the second's.
First ==
    { NotObject,
      Document(Absent, << Entry("a", "h1") >>),
      Document(Absent, << Entry("a", "h2") >>),
      Document(10, << NotObject, Entry("a", " h1 ") >>),
      Document(Absent, << Entry("b", "h2"), Entry(Absent, Absent), Entry("a", "h1"), Entry("c", "h3") >>) }
Second ==
    { NotObject,
      Document(Absent, Absent),
      Document(Absent, << [Entry("a", "h3") EXCEPT !.enabled = FALSE], Entry("b", " "), Entry(Absent, "h1") >>) }

MCLoads == {LoadedClients(<<first, second>>) : first \in First, second \in Second}
MCPaces == {<<1000, 3000>>, <<100, 3000>>}
MCDefaultIds == << "d0", "d1", "d2", "d3" >>
MCPadded == [address \in {" h1 ", " "} |-> IF address = " " THEN "" ELSE "h1"]
MCEndpointOf == [h1 |-> "e1", h2 |-> "e1", h3 |-> "e2"]
=============================================================================
