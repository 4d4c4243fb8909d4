---------------------------- MODULE MCGitHubClient ----------------------------
(* One client searches and fetches repositories. *)
EXTENDS GitHubClient

MCLimit == [total |-> 3, search |-> 3, repository_details |-> 1,
            contributors |-> 0, profiles |-> 0]
MCThreshold == [core |-> 1, search |-> 0]
=============================================================================
