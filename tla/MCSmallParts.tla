---------------------------- MODULE MCSmallParts ----------------------------
(***************************************************************************)
(* Model checking of the small parts, and of the texts of endpoints and    *)
(* the hash of those that are keys.                                        *)
(***************************************************************************)
EXTENDS SmallParts, EndpointText

Hashes == INSTANCE EndpointHash WITH Nullopt <- None

MCInit ==
    /\ part \in Parts \cup {"texts"}
    /\ PartsStart
    /\ IF part = "texts" THEN Init ELSE origin = None /\ text = None /\ edits = None

MCNext ==
    /\ PartsNext
    /\ IF part = "texts" THEN Next ELSE UNCHANGED vars

MCSpec == MCInit /\ [][MCNext]_<<allVars, vars>>

-----------------------------------------------------------------------------
\* Parse reads exactly the texts of endpoints, and ToString writes them
\* (socket_endpoint.hpp:54-146, ip_address.hpp:57-95).
EndpointTexts == part = "texts" => ParseReadsTexts /\ RoundTrip

\* Endpoints of one host do not collide (socket_endpoint.hpp:238-251).
NearKeysDoNotCollide == part = "keys" => Hashes!NearKeysDoNotCollide
=============================================================================
