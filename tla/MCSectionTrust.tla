---------------------------- MODULE MCSectionTrust ----------------------------
(* Two neighbouring sections of 3-bit names: ours "0", holding 000, and   *)
(* theirs "1".                                                             *)
EXTENDS SectionTrust

MCOurName      == <<0, 0, 0>>
MCOurPrefix0   == NewPrefix(1, <<0, 0, 0>>)
MCTheirPrefix0 == NewPrefix(1, <<1, 0, 0>>)

=============================================================================
