--------------------------- MODULE MCServerRouter ---------------------------
(* Small instances of ServerRouter.                                        *)
EXTENDS ServerRefinement, TLC

Perms == Permutations(Clients)

(* The uninitialised select_writefds: zeroed memory, or one bit: that of   *)
(* the console or that of the first socket of a client.                    *)
ZeroedMemory == {{}}
AnyMemory == {{}, {1}, {4}}

(* A good client's messages, one that has no answer, an out-of-date        *)
(* client's, and what makes a session change its state.                    *)
Hello == {Msg("CONNECTION_REQ", "same_version")}
Admission == Hello \cup {Msg("REGISTRATION_REQ", "none")}
Poll == Hello \cup {Msg("POLL_REQ", "none")}
OtherVersion == {Msg("CONNECTION_REQ", "other_version")}
Questions == Admission \cup OtherVersion \cup {Msg("USER_LOGGING_REQ", "none")}
Leave == Hello \cup {Msg("DISCONNECTION_REQ", "USER_SHUTDOWN")}
AnySession == Admission \cup OtherVersion \cup Leave
=============================================================================
