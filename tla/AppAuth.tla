------------------------------ MODULE AppAuth -------------------------------
(***************************************************************************)
(* The credentials of the GitHub App (advisory/auth.py).                   *)
(*                                                                         *)
(* A moment is written as the seconds until it on GitHub's clock, so it    *)
(* falls as time passes.  The worker's clock may differ from GitHub's.      *)
(* One worker thread handles one repository at a time: its token cache has *)
(* one entry, <<>> or <<seconds until it expires>>.                        *)
(***************************************************************************)
EXTENDS Integers, Sequences

CONSTANT ClockSkews   \* how far the worker's clock may be ahead, in seconds; behind if negative

\* Faulty variants: a lifetime that is too short for the waits, and tokens fresh to their last second.
TightLifetime == 240
NoMargin == 0

JwtLifetime == 540
ClockSkew == 60
RefreshMargin == 300

ASSUME SkewAssumption == ClockSkews \subseteq Int

\* What GitHub allows (its documentation, quoted in auth.py): a JWT lives at most ten minutes, an
\* installation token one hour.
GitHubMaxJwtLifetime == 600
GitHubTokenLifetime == 3600

\* app_jwt, by a worker whose clock is `skew` ahead of GitHub's.
AppJwt(skew) == [iat |-> skew - ClockSkew, exp |-> skew + JwtLifetime]

JwtAccepted(jwt) == jwt.iat <= 0 /\ jwt.exp \in 1..GitHubMaxJwtLifetime

\* InstallationToken.fresh, on the worker's clock.
Fresh(expiresIn, skew) == expiresIn - skew > RefreshMargin

\* installation_token hands the cached token out without asking GitHub.
Cached(cache, skew) == cache # <<>> /\ Fresh(cache[1], skew)

TokenAccepted(cache) == cache # <<>> /\ cache[1] > 0

\* d seconds later; how long a token has been expired does not matter.
Elapsed(cache, d) ==
  IF cache = <<>> THEN <<>> ELSE <<IF cache[1] > d THEN cache[1] - d ELSE 0>>
=============================================================================
