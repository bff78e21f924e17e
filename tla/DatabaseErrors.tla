--------------------------- MODULE DatabaseErrors ---------------------------
(***************************************************************************)
(* Which failures mean "PostgreSQL is unavailable right now" (db/errors.py)*)
(*                                                                         *)
(* An exception is the sequence of what is found behind it: itself, then   *)
(* the driver's error behind a SQLAlchemy error, or its explicit cause,    *)
(* and so on.  What it was merely raised in the handling of (__context__)  *)
(* is not in the sequence.  A link is named for what the code asks of it.  *)
(***************************************************************************)
EXTENDS Naturals, Sequences

CONSTANT MaxChain   \* _MAX_CHAIN: how many links are looked at

ASSUME ChainAssumption == MaxChain \in Nat \ {0}

\* OSErrors that tell of the network: ConnectionError, TimeoutError, gaierror,
\* one of _NETWORK_ERRNOS, or asyncio's summary of several addresses.
NetworkFailures ==
  {"ConnectionError", "TimeoutError", "gaierror", "network errno", "Multiple exceptions"}

\* SQLSTATE class 08 and _UNAVAILABLE_SQLSTATES
UnavailableStates == {"08", "57P01", "57P02", "57P03", "57P05", "53300", "3D000"}

\* _ACQUISITION_ONLY_SQLSTATES
AcquisitionOnlyStates == {"55000"}

\* Mutant of Unavailable: a refusal counts in every phase.
UnavailableEverywhere(link) ==
  \/ link \in {"connection_invalidated", "PoolTimeoutError", "ConnectionDoesNotExistError"}
  \/ link \in UnavailableStates \cup AcquisitionOnlyStates
  \/ link \in NetworkFailures

Unavailable(link) ==
  \/ link \in {"connection_invalidated", "PoolTimeoutError", "ConnectionDoesNotExistError"}
  \/ link \in UnavailableStates
  \/ link \in NetworkFailures

\* A BaseException that is no Exception: cancellation, interpreter exit.
IsBaseException(link) == link = "CancelledError"

\* _causes: a chain that comes back to itself ends there, so it is finite.
Causes(exc) == SubSeq(exc, 1, IF Len(exc) < MaxChain THEN Len(exc) ELSE MaxChain)

\* Some link is of the kind, and no cancellation comes before it.
Found(exc, Kind(_)) ==
  \E i \in DOMAIN Causes(exc) :
    /\ Kind(Causes(exc)[i])
    /\ \A j \in 1..i : ~IsBaseException(Causes(exc)[j])

is_database_unavailable(exc) == Found(exc, Unavailable)

is_connection_acquisition_unavailable(exc) ==
  \/ is_database_unavailable(exc)
  \/ Found(exc, LAMBDA link : link \in AcquisitionOnlyStates)
=============================================================================
