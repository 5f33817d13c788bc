---------------------------- MODULE MCGuestFiles ----------------------------
(* A small sandbox for TLC: two names of one guest directory (/etc and      *)
(* /system/etc), a directory of the sandbox that the alias hides, one       *)
(* directory left to the host, and a host file that a guest path names too. *)
EXTENDS GuestFiles, TLC

MCComponents == STRING

MCRoot     == <<"data", "vm">>
MCExcluded == {<<"ex">>}

GuestEtc == MCRoot \o <<"system", "etc">>
Hidden   == MCRoot \o <<"etc">>

Names(abs, paths) == [abs : {abs}, path : paths]

\* The last absolute name is one component longer than the place it begins with.
MCFileNames ==
  Names(TRUE, { <<"etc", "f">>, <<"system", "etc", "f">>, GuestEtc \o <<"f">>, <<"ex", "f">>,
                <<"etc", "f", "x">> })
  \union Names(FALSE, { <<"f">>, <<"etc", "f">> })

MCDirNames == Names(TRUE, { <<>>, <<"etc">>, <<"ex">> }) \union Names(FALSE, { <<"etc">> })

MCDirs   == { <<>>, MCRoot, GuestEtc, Hidden, <<"ex">> }
MCPlaces == { GuestEtc \o <<"f">>, Hidden \o <<"f">>, <<"ex", "f">>, <<"etc", "f">> }

MCLinkTargets == { <<"etc", "f">> }

\* Every placeholder, a path under /sys that has none, the process under its own number, and
\* two that are unknown.
MCVirtualNames ==
  ToSet(Placeholders) \union
  { <<"sys", "power">>, Own, Own \o <<"status">>, <<"proc", "1">>, Self \o <<"version">> }

\* The guest's files and the placeholders are parts of the state that no step relates, and no
\* property reads both: a run of one is explored beside the other's first state only.
Apart ==
  \/ job = [t \in Threads |-> 0] /\ placed = {} /\ ~done
  \/ cwd = <<>> /\ disk = [h \in Places |-> None]

Symmetry == Permutations(Threads) \union Permutations(Files)
=============================================================================
