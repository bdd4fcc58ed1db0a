--------------------------- MODULE MCContextCache ---------------------------
(* Small instances of ContextCache for TLC. *)
EXTENDS ContextCache, TLC

CONSTANTS t1, t2, a, b

MCNoCreators   == [c \in Contexts |-> {}]
MCOneCreator   == [c \in Contexts |-> {t1}]
MCAnyCreator   == [c \in Contexts |-> Threads]
=============================================================================
