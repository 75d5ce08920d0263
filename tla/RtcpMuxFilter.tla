---------------------------- MODULE RtcpMuxFilter ----------------------------
(***************************************************************************)
(* RtcpMuxFilter (rtcp_mux_filter.cpp): the offer/answer negotiation of    *)
(* RTCP multiplexing, as operators on the filter's two fields.  Each call  *)
(* yields the filter after it and the bool it returns.                     *)
(***************************************************************************)

NewFilter == [state |-> "init", offerEnable |-> FALSE]

Result(filter, ok) == [filter |-> filter, ok |-> ok]

IsFullyActive(f) == f.state = "active"

IsProvisionallyActive(f) == f.state \in {"sentPrAnswer", "receivedPrAnswer"}

IsActive(f) == IsFullyActive(f) \/ IsProvisionallyActive(f)

ExpectOffer(f, src) ==
    <<f.state, src>> \in {<<"init", "local">>, <<"init", "remote">>,
                          <<"sentOffer", "local">>, <<"receivedOffer", "remote">>}

ExpectAnswer(f, src) ==
    <<f.state, src>> \in {<<"sentOffer", "remote">>, <<"receivedOffer", "local">>,
                          <<"sentPrAnswer", "local">>, <<"receivedPrAnswer", "remote">>}

\* An active filter cannot be deactivated: every call succeeds without effect
\* when it asks for muxing and fails when it does not.
SetOffer(f, enable, src) ==
    CASE IsFullyActive(f)     -> Result(f, enable)
      [] ~IsFullyActive(f) /\ ~ExpectOffer(f, src) -> Result(f, FALSE)
      [] OTHER -> Result([state |-> IF src = "local" THEN "sentOffer" ELSE "receivedOffer",
                          offerEnable |-> enable], TRUE)

\* The state after an answer that the filter expects: muxing the offer did not
\* ask for is refused.
SetProvisionalAnswer(f, enable, src) ==
    LET active  == IF src = "remote" THEN "receivedPrAnswer" ELSE "sentPrAnswer"
        offered == IF src = "remote" THEN "sentOffer" ELSE "receivedOffer"
    IN  CASE IsFullyActive(f)      -> Result(f, enable)
          [] ~IsFullyActive(f) /\ ~ExpectAnswer(f, src) -> Result(f, FALSE)
          [] OTHER -> IF f.offerEnable
                      THEN Result([f EXCEPT !.state = IF enable THEN active ELSE offered],
                                  TRUE)
                      ELSE Result(f, ~enable)

\* Mutant: an active filter accepts an answer that turns muxing off.
SetAnswerWhenActive(f, enable, src) ==
    CASE IsFullyActive(f)      -> Result(f, TRUE)
      [] ~IsFullyActive(f) /\ ~ExpectAnswer(f, src) -> Result(f, FALSE)
      [] OTHER -> IF enable
                  THEN IF f.offerEnable THEN Result([f EXCEPT !.state = "active"], TRUE)
                                        ELSE Result(f, FALSE)
                  ELSE Result([f EXCEPT !.state = "init"], TRUE)

SetAnswer(f, enable, src) ==
    CASE IsFullyActive(f)      -> Result(f, enable)
      [] ~IsFullyActive(f) /\ ~ExpectAnswer(f, src) -> Result(f, FALSE)
      [] OTHER -> IF enable
                  THEN IF f.offerEnable THEN Result([f EXCEPT !.state = "active"], TRUE)
                                        ELSE Result(f, FALSE)
                  ELSE Result([f EXCEPT !.state = "init"], TRUE)
=============================================================================
