------------------------------- MODULE MCTurn -------------------------------
(* Values of AgentTurn's constants for model checking. *)
EXTENDS AgentTurn

CONSTANTS c1, c2

\* Replies: an answer, one call, two calls.
OneOrTwoCalls == { {}, {c1}, {c1, c2} }
OneCall == { {}, {c1} }
\* A provider that leaves out the id of one call of two, or of the only one.
WithEmptyId == { {}, {NoId}, {c1, NoId} }

Fresh == { << >> }

Ask == Said("request")
Show == Said("media")
Answer == Reply({})
Work == << Reply({c1}), Results({c1}) >>

\* Histories around the smallest that CutIndex can cut, and one whose last
\* quarter holds no place to cut.
Compactable ==
    { << Ask, Answer, Ask, Answer >>,
      << Ask, Answer, Show, Answer, Ask >> \o << Answer >>,
      << Ask, Answer, Ask, Answer, Ask >> \o Work,
      << Ask >> \o Work \o Work \o << Answer >>,
      << Said("summary"), Ask, Answer, Ask, Reply({c1}) >> }

FreshOrCompactable == Fresh \cup Compactable
=============================================================================
