----------------------------- MODULE LostUpdates -----------------------------
(***************************************************************************)
(* ConfigLifecycle with a history of what each client has seen: versions   *)
(* it has read with GET, and those it has made itself.                     *)
(***************************************************************************)
EXTENDS ConfigLifecycle

VARIABLE seen   \* history: for every client the versions whose contents it knows

SeenInit == Init /\ seen = [c \in Clients |-> {}]

Learns(c, v) == seen' = [seen EXCEPT ![c] = @ \cup {v}]

\* GET gives contents and ETag together, and a write makes a version the client asked for.
SeenNext ==
    \/ \E c \in Clients : Get(c) /\ Learns(c, version)
    \/ \E c \in Clients : Publish(c) /\ Learns(c, version')
    \/ /\ \/ \E c \in Clients :
                Submit(c) \/ Reject(c) \/ Accept(c) \/ Swap(c) \/ ActivationFails(c) \/ Record(c) \/ Respond(c)
          \/ SetDraining
       /\ UNCHANGED seen

SeenSpec == SeenInit /\ [][SeenNext]_<<vars, seen>>

-----------------------------------------------------------------------------
\* "PUT /api/v1/config requires the current ETag through If-Match to prevent lost
\* updates": a client that sends back the ETags it is given only ever replaces a
\* configuration it has seen, or made itself.
NoLostUpdate ==
    [][\A c \in Clients : Swap(c) /\ op[c] = "put" => version \in seen[c]]_<<vars, seen>>
=============================================================================
