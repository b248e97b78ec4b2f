------------------------------- MODULE MCProxy ------------------------------
(* Proxy for TLC.  The header maps treat each field by itself, so messages *)
(* have Connection, at most one other field and at most two names in       *)
(* Connection.  Via comes on one line, or on two.                          *)
EXTENDS Proxy, FiniteSetsExt

Fields == kSubset(0, Field) \cup kSubset(1, Field)

Options == kSubset(1, Field) \cup {{f, "Keep-Alive"} : f \in {"Via", "Host", "Other"}}

Lines(F) == IF "Via" \in F THEN {<< <<"1.0">> >>, << <<"1.0">>, <<"1.1", "2">> >>} ELSE {<<>>}

Messages(F, o, v) ==
    {[fields |-> F, options |-> o, via |-> l, host |-> Client, uri |-> Client, version |-> v] :
        l \in Lines(F)}

MCRequest ==
    UNION ({Messages(F, {}, v) : F \in Fields \ {{"Connection"}}, v \in {"Http10", "Http11"}}
             \cup {Messages(F \cup {"Connection"}, o, "Http11") : F \in Fields, o \in Options})

MCResponse ==
    UNION ({Messages(F, {}, "Http11") : F \in Fields \ {{"Connection"}}}
             \cup {Messages({"Connection", f}, {f}, "Http11") : f \in Field \ {"Connection"}})

(* Requests that have nothing for the filter to remove *)
MCPlainRequest == UNION {Messages(F, {}, "Http11") : F \in {{"Host"}, {"Host", "Other"}}}
=============================================================================
