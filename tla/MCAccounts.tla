----------------------------- MODULE MCAccounts -----------------------------
(***************************************************************************)
(* Two teams, the first of which is the home of a user known by an e-mail   *)
(* address; a newcomer with an address and a phone, to both of which codes  *)
(* have been sent, and whose default name is free, or someone with that     *)
(* phone already, proved or not.                                            *)
(***************************************************************************)
EXTENDS Accounts, TLC

CONSTANTS ann, bob, bobPhone, google, kakao, r1, r2

MCNames == {"ann", "bob", "bob+", "shop"}
MCWithNumber == [p \in MCNames \X {1} |-> IF p[1] = "bob" THEN "bob+" ELSE p[1]]
MCGiven == [t \in TeamIds |-> CASE t = 1 -> "ann" [] t = 2 -> "shop" [] OTHER -> Unused]
MCBaseName == [a \in {ann, bob, bobPhone} |-> IF a = ann THEN "ann" ELSE "bob"]

Ann == [email |-> ann, phone |-> NoOne, team |-> 1, via |-> "email"]
Shop == [email |-> NoOne, phone |-> bobPhone, team |-> 2, via |-> "phone"]
Kakao == [Shop EXCEPT !.email = bob, !.via = "oauth"]
(* Whether the phone has no user yet, or one who has returned a code of it,  *)
(* or one whose phone Kakao has told.                                        *)
Start(second, proved) ==
    [users |-> [u \in UserIds |-> CASE u = 1 -> Ann [] u = 2 -> second [] OTHER -> Unused],
     sent |-> [a \in Addresses |->
         IF a = ann \/ (second # Unused /\ a = bobPhone) THEN 0 ELSE 1],
     accounts |-> [u \in UserIds |-> [p \in Providers |->
         IF u = 2 /\ second = Kakao /\ p = kakao THEN 1 ELSE 0]],
     temporary |-> {bob}, verified |-> proved]
MCStarts == {Start(Unused, {ann}), Start(Shop, {ann, bobPhone}), Start(Kakao, {ann})}

Nobody == [address |-> NoOne, phone |-> NoOne, provider |-> NoProvider,
           user |-> NoOne, code |-> 0]
Ask(op, t, n) == [op |-> op, team |-> t, name |-> n, person |-> Nobody]
By(op, a) == [Ask(op, NoTeam, NoName) EXCEPT !.person.address = a]
Code(c, call) == [call EXCEPT !.person.code = c]
From(p, call) == [call EXCEPT !.person.provider = p]
User(u, call) == [call EXCEPT !.person.user = u]

MCCalls ==
    {Ask("newTeam", NoTeam, "bob")}
    \cup {Ask("rename", 1, "bob"), Ask("rename", 1, "shop"), Ask("rename", 2, "bob")}
    \cup {Ask("close", 2, NoName)}
    \cup {By("ask", a) : a \in {bob, bobPhone}}
    \cup {Code(1, By("confirm", bobPhone))}
    \cup {Code(c, By("emailSignUp", bob)) : c \in {1, 2}}
    \cup {By("phoneSignUp", bobPhone)}
    \cup {From(google, By("oauth", bob)), From(google, By("oauth", ann)),
          From(google, By("integrate", ann))}
    \cup {[From(kakao, By("oauth", bob)) EXCEPT !.person.phone = bobPhone]}
    \cup {User(1, Code(c, By("setPhone", bobPhone))) : c \in {0, 1}}
    \cup {User(1, By("leave", NoOne)), By("temporary", ann)}
MCSymmetry == Permutations(Requests)
=============================================================================
