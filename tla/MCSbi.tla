----------------------------------- MODULE MCSbi ---------------------------------
(***************************************************************************)
(* UDM and PCF, on one listener and on two; keys a1 and a2 share an id,    *)
(* as after a rotation that reuses it; one document does not parse.        *)
(***************************************************************************)
EXTENDS SbiInv
CONSTANTS a1, a2, b1, nokid, bad, addr, addr2, p1, p2
BothNFs == {"UDM", "PCF"}
AllKeys == {a1, a2, b1, nokid, bad}
Kids    == [k \in AllKeys |-> CASE k \in {a1, a2} -> "a" [] k = b1 -> "b"
                                [] k = nokid -> "" [] k = bad -> "c"]
SomeDocuments == {{a1, b1}, {a2, nokid}, {a1, bad}}
SomeTokens ==
    {[kid |-> i, signer |-> k, when |-> "now", scopes |-> {"nudm-sdm"}] :
        i \in {"", "a", "b"}, k \in {a1, a2, b1, nokid, Unsigned}}
    \cup {[kid |-> "a", signer |-> a2, when |-> w, scopes |-> s] :
        w \in {"expired", "now", "early"}, s \in {{}, {"npcf-smpolicycontrol", "nudm-sdm"}}}
Setting(shared, tls, nrf, oauth, called, conns, requests) ==
    [shared |-> shared, tls |-> tls, nrf |-> nrf, oauth |-> oauth, called |-> called,
     conns |-> conns, requests |-> requests]
SomeSettings == {Setting(TRUE, FALSE, TRUE, "on", {}, 0, 0),
                 Setting(FALSE, TRUE, TRUE, "on", {}, 0, 0),
                 Setting(TRUE, TRUE, FALSE, "bypass", {FiveGC}, 3, 0),
                 Setting(FALSE, FALSE, FALSE, "off", BothNFs, 3, 0),
                 Setting(TRUE, TRUE, FALSE, "on", {"GSUP"}, 3, 0),
                 Setting(FALSE, TRUE, FALSE, "off", {"Diameter"}, 3, 0),
                 Setting(FALSE, TRUE, FALSE, "off", {"Diameter"}, 2, 3)}
TwoAddresses == {addr, addr2}
==================================================================================
