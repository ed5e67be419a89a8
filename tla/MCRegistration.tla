--------------------------- MODULE MCRegistration ---------------------------
(* Small instances of Registration. *)
EXTENDS Registration, TLC

CONSTANTS ann, bob

Plain(mailbox, style) ==
    [mailbox |-> mailbox, style |-> style, form |-> "plain", long |-> FALSE]

\* Two spellings of one mailbox, another mailbox, and an address that is refused.
MCRawEmail == {Plain(ann, "lower"), Plain(ann, "mixedCase"),
               Plain(bob, "padded"),
               [Plain(bob, "lower") EXCEPT !.form = "displayName"]}

\* One mailbox: every two calls are after the same row.
MCOneRawEmail == {Plain(ann, "lower")}

\* Lengths on either side of the lower bound of PlainPassword.Validate.
MCPasswordLength == {7, 8}

Symmetry == Permutations(Request)
=============================================================================
