------------------------------ MODULE Federated ------------------------------
(* What a sign-in through a customer's identity provider or directory        *)
(* accepts: verify_id_token and validate_claims of src/app/oidc.py,          *)
(* authenticate and role_from_attributes of src/app/directory.py.  The HTTPS *)
(* responses, PyJWT's decode and the directory's bind are external.          *)
EXTENDS Integers, Sequences, FiniteSets

CONSTANTS
    Skew,        \* CLOCK_SKEW_SECONDS
    Now,         \* the time of the check
    Tokens,      \* id tokens: header, signer and claims
    KeySets,     \* JWKS documents: sequences of keys
    Settings,    \* directory configurations
    Logins       \* usernames and passwords submitted to the directory

Provider == "idp"   \* settings.issuer
Client   == "us"    \* settings.client_id
Nonce    == "n"     \* of the login flow
ALLOWED_SIGNING_ALGORITHMS == {"RS256", "ES256"}
ROLES    == {"OWNER", "ADMIN", "REVIEWER", "VIEWER"}
DefaultRoles == {"REVIEWER", "VIEWER"}

VARIABLES input, result

vars == <<input, result>>

-----------------------------------------------------------------------------
(* OpenID Connect *)

\* fetch_discovery and verify_id_token both compare the document's issuer, and every
\* endpoint has to be HTTPS without credentials in it.
DocumentAccepted(doc) == doc.issuer = Provider /\ doc.https

\* The keys that may have signed: exactly one has the token's kid, and it is for signatures
\* with the token's algorithm. A field the key does not have allows everything.
SigningKeys(token, keys) ==
    LET matches == {i \in DOMAIN keys : keys[i].kid = token.kid} IN
    IF Cardinality(matches) # 1 THEN {}
    ELSE {keys[i].id : i \in {j \in matches : /\ keys[j].use \in {"absent", "sig"}
                                              /\ keys[j].alg \in {"absent", token.alg}
                                              /\ keys[j].ops \in {"absent", "verify"}}}

\* jwt.decode, external: the signature, and claims as PyJWT checks them.
Decoded(token, key) ==
    /\ token.signer = key
    /\ token.iss = Provider
    /\ Client \in token.aud
    /\ token.exp + Skew > Now
    /\ token.iat - Skew <= Now

\* validate_claims; azp is "absent" or the party it names.
ValidateClaimsMutant(token) ==
    /\ token.iss = Provider
    /\ Client \in token.aud
    /\ Now <= token.exp + Skew
    /\ token.iat - Skew <= Now
    /\ token.sub # ""
    /\ token.nonce = Nonce
ValidateClaims(token) ==
    /\ token.iss = Provider
    /\ Client \in token.aud
    /\ Cardinality(token.aud) > 1 \/ token.azp # "absent" => token.azp = Client
    /\ Now <= token.exp + Skew
    /\ token.iat - Skew <= Now
    /\ token.sub # ""
    /\ token.nonce = Nonce

VerifyIdToken(token, keys, doc) ==
    /\ DocumentAccepted(doc)
    /\ token.alg \in ALLOWED_SIGNING_ALGORITHMS /\ token.kid # "absent"
    /\ \E key \in SigningKeys(token, keys) : Decoded(token, key)
    /\ ValidateClaims(token)

-----------------------------------------------------------------------------
(* The directory *)

\* validate_settings; placeholders counts {username} in the bind template.
SettingsAccepted(s) ==
    /\ s.scheme = "ldaps" /\ s.tls
    /\ s.defaultRole \in DefaultRoles
    /\ s.placeholders = 1

\* bind_dn_for refuses an empty name and the characters that structure a DN.
BindDn(name) == IF name.kind = "plain" THEN name.id ELSE "refused"

\* authenticate: "error" is DirectoryError, "none" wrong credentials. A directory answers a
\* bind without a password with success (external), so it must not be asked.
DirectoryBinds(login) == login.password = "" \/ login.password = login.correct

Authenticate(s, login) ==
    IF ~SettingsAccepted(s) THEN "error"
    ELSE IF login.password = "" THEN "none"
    ELSE IF BindDn(login.name) = "refused" THEN "error"
    ELSE IF DirectoryBinds(login) THEN "bound" ELSE "none"

\* role_from_attributes: the attribute is read only where it is configured and searched for.
RoleFromAttributes(s, login) ==
    LET claimed == IF s.roleAttribute /\ s.baseDn THEN login.claims ELSE "" IN
    IF s.roleAttribute /\ claimed \in ROLES THEN claimed
    ELSE IF s.defaultRole \in ROLES THEN s.defaultRole ELSE "REVIEWER"

-----------------------------------------------------------------------------

Documents == [issuer : {Provider, "other"}, https : BOOLEAN]

Init ==
    /\ \/ \E t \in Tokens, k \in KeySets, d \in Documents :
             input = [kind |-> "oidc", token |-> t, keys |-> k, doc |-> d]
       \/ \E s \in Settings, l \in Logins :
             input = [kind |-> "directory", settings |-> s, login |-> l]
    /\ result = "pending"

SignInWithToken ==
    /\ input.kind = "oidc" /\ result = "pending"
    /\ result' = IF VerifyIdToken(input.token, input.keys, input.doc) THEN "accepted" ELSE "refused"
    /\ UNCHANGED input

SignInWithDirectory ==
    /\ input.kind = "directory" /\ result = "pending"
    /\ result' = IF Authenticate(input.settings, input.login) = "bound"
                 THEN RoleFromAttributes(input.settings, input.login) ELSE "refused"
    /\ UNCHANGED input

Next == SignInWithToken \/ SignInWithDirectory

Spec == Init /\ [][Next]_vars

-----------------------------------------------------------------------------

TypeOK == result \in {"pending", "accepted", "refused"} \cup ROLES

\* An accepted token was signed by a key that only the configured provider holds, under its
\* own identifier, and was made for this client, for this login attempt and for now: a token
\* made for another party that merely lists this client is refused.
TokenIsOurs ==
    result = "accepted" =>
        LET t == input.token IN
        /\ input.doc = [issuer |-> Provider, https |-> TRUE]
        /\ \E i \in DOMAIN input.keys : /\ input.keys[i].id = t.signer
                                        /\ input.keys[i].kid = t.kid
                                        /\ input.keys[i].use # "enc"
        /\ t.iss = Provider /\ t.nonce = Nonce /\ t.sub # ""
        /\ t.aud = {Client} \/ (Client \in t.aud /\ t.azp = Client)
        /\ t.azp \in {"absent", Client}
        /\ Now < t.exp + Skew /\ t.iat <= Now + Skew

\* A directory sign-in proves knowledge of the password of the one entry that was named, over
\* a verified connection; and an administrative role comes only from the directory itself.
DirectoryProves ==
    input.kind = "directory" /\ result \in ROLES =>
        /\ input.login.password = input.login.correct /\ input.login.name.kind = "plain"
        /\ input.settings.scheme = "ldaps"
        /\ result \in {"OWNER", "ADMIN"} => input.login.claims = result

\* What is accepted from a provider or a directory was proved to this system.
AcceptedIsProved == TokenIsOurs /\ DirectoryProves

=============================================================================
