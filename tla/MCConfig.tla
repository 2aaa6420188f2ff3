------------------------------ MODULE MCConfig ------------------------------
(***************************************************************************)
(* Config on small instances, for TLC.                                     *)
(***************************************************************************)
EXTENDS Config

\* config/iad.json: it has these keys and no others.
Shipped ==
  {<<"root", "audio">>}
    \cup {"audio"} \X (Sections \cup {"network"})
    \cup Sections \X {"enabled", "device_id", "channel_id", "SetVol"}
    \cup {"network"} \X Elements(network_keys)

Damaged(keys, how) ==
  [k \in Keys |-> IF k \in keys THEN how ELSE "right"]

\* The shipped file, and one that has everything.
WholeFiles == {Damaged(Keys \ Shipped, "missing"), Damaged({}, "missing")}

\* What only validate_json() looks at: one attribute, and all that is nested.
OnlyValidated ==
  {<<"AI", "EnableAec">>}
    \cup {"AGC of AO", "AGC of AI"} \X agc_attributes
    \cup {"HPF of AO"} \X hpf_attributes

\* And those in which one key that is shipped is missing or of a wrong type, or
\* one of the others missing.
SomeFiles ==
  WholeFiles
    \cup {Damaged({k}, how) : k \in Shipped, how \in {"missing", "wrong"}}
    \cup {Damaged({k}, "missing") : k \in OnlyValidated}

\* Both sections are enabled or none, one of the volumes is out of range, and
\* all paths are long or none.
SomeSwitches == {{}, Sections}
SomeLouds == {{"AO"}}
SomeLongs == {{}, Elements(network_keys)}
=============================================================================
