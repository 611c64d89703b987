--------------------------- MODULE MCLicenceUsers ---------------------------
(* Instances of LicenceUsers for TLC: names of one class differ only in case. *)
EXTENDS LicenceUsers

CONSTANTS
    Variants,   \* the names that differ from each other only in case
    n1, n2


MCLower == [n \in Names |-> IF n \in Variants THEN Variants ELSE {n}]

\* The user that is there with the role that is there, as a local user and not;
\* new users of which one is local; and imports with a role that a call has to make.
MCImports ==
    [name : {Admin}, type : {Local, 1}, ws : Workspaces, role : {Admin}]
    \union [name : {n1}, type : {1}, ws : Workspaces, role : {Admin, n1}]
    \union [name : {n2}, type : {Local}, ws : Workspaces, role : {Admin}]
    \union [name : {Admin}, type : {1}, ws : Workspaces, role : {n1}]

=============================================================================
