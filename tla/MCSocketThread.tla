--------------------------- MODULE MCSocketThread ---------------------------
(* Callbacks for TLC, by what they do with set_timeout. *)
EXTENDS SocketThread

\* on_check never calls set_timeout: m_timeout stays at its default -1.
NeverSetsTimeout == {-1}

\* on_check calls set_timeout(20) on every call.
KeepsTimeout == {20}

\* Each start() is given either callback.
EitherCallback == {-1, 20}
=============================================================================
