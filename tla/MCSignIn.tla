------------------------------ MODULE MCSignIn ------------------------------
(* SignIn with one browser, or two, and requests that overlap in pairs.     *)
EXTENDS SignIn

CONSTANTS b1, b2, x1, x2

OneBrowser == {b1}
TwoCalls == {x1, x2}
AllRequests == {"guess", "refresh", "logout", "forgot", "change", "deactivate", "resend"}
JustForgot == {"forgot"}

=============================================================================
