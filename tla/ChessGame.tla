----------------------------- MODULE ChessGame -----------------------------
(***************************************************************************)
(* A game played by the rules of ChessEngine.  Nothing in the package      *)
(* makes a move: its caller keeps the position and makes a move the engine *)
(* calls legal.  That caller is modelled from the engine's documents.      *)
(***************************************************************************)
EXTENDS ChessEngine, FiniteSets

CONSTANTS
  Starts,    \* positions games begin from
  MaxPlies   \* bound: moves made

Colors == {"w", "b"}
Rights == Colors \X {"K", "Q"}

Corner(right) == Home(Castlings[right[2]].rook, right[1])

\* One king each, no pawn on a last rank, king and rook at home for every right,
\* and a pawn behind the square that the side to move can capture in passing.
IsPosition(b, rights, target, side) ==
  /\ DOMAIN b \subseteq Squares
  /\ \A s \in DOMAIN b : b[s] \in Symbols
  /\ \A c \in Colors : Cardinality({s \in DOMAIN b : b[s] = <<c, "K">>}) = 1
  /\ \A s \in DOMAIN b : pieceType(b[s]) = "P" => rankOf(s) \notin {"1", "8"}
  /\ rights \in [Rights -> BOOLEAN]
  /\ \A r \in Rights : rights[r] =>
       Holds(b, Home("e", r[1]), <<r[1], "K">>) /\ Holds(b, Corner(r), <<r[1], "R">>)
  /\ side \in Colors
  /\ target # NoSquare =>
       Holds(b, Along(target, <<-Forward(side), 0>>, 1), <<getOpponentColor(side), "P">>)

-----------------------------------------------------------------------------
(***************************************************************************)
(* The rules of chess, in words of their own: distances and lines of the   *)
(* board instead of the offsets, directions and rays of ChessEngine.       *)
(***************************************************************************)
Dist(x, y) == IF x < y THEN y - x ELSE x - y
Apart(s, t) == <<Dist(s[1], t[1]), Dist(s[2], t[2])>>
Within(x, y, z) == (y < x /\ x < z) \/ (z < x /\ x < y)

\* The line of each kind a square lies on
Line(kind, s) ==
  IF kind = "row" THEN s[1] ELSE IF kind = "file" THEN s[2]
  ELSE IF kind = "fall" THEN s[1] - s[2] ELSE s[1] + s[2]

Straights == {"row", "file"}
Diagonals == {"fall", "rise"}

\* On one line, with nothing between them
Sees(b, kind, s, t) ==
  /\ s # t /\ Line(kind, s) = Line(kind, t)
  /\ \A q \in DOMAIN b : Line(kind, q) = Line(kind, s) =>
       ~Within(q[1], s[1], t[1]) /\ ~Within(q[2], s[2], t[2])

\* By how many ranks t is ahead of s for a colour
Ahead(color, s, t) == IF color = "w" THEN s[1] - t[1] ELSE t[1] - s[1]

\* The piece on s could take an enemy on t.
Takes(b, s, t) ==
  LET type == pieceType(b[s]) IN
  \/ type = "P" /\ Ahead(getPieceColor(b[s]), s, t) = 1 /\ Dist(s[2], t[2]) = 1
  \/ type = "N" /\ Apart(s, t) \in {<<1, 2>>, <<2, 1>>}
  \/ type = "K" /\ s # t /\ Dist(s[1], t[1]) <= 1 /\ Dist(s[2], t[2]) <= 1
  \/ type \in {"R", "Q"} /\ \E kind \in Straights : Sees(b, kind, s, t)
  \/ type \in {"B", "Q"} /\ \E kind \in Diagonals : Sees(b, kind, s, t)

\* A pawn steps to an empty square, from its second rank also by two.
Steps(b, s, t) ==
  LET color == getPieceColor(b[s]) IN
  /\ t \notin DOMAIN b /\ t[2] = s[2]
  /\ \/ Ahead(color, s, t) = 1
     \/ /\ Ahead(color, s, t) = 2 /\ Sees(b, "file", s, t)
        /\ rankOf(s) = IF color = "w" THEN "2" ELSE "7"

\* Where the piece on s may go, its own king aside; a pawn takes what is there
\* or what has just jumped over the square.
MayGo(b, s, t, target) ==
  /\ t \in DOMAIN b => getPieceColor(b[t]) # getPieceColor(b[s])
  /\ IF pieceType(b[s]) = "P"
       THEN Steps(b, s, t) \/ (Takes(b, s, t) /\ (t \in DOMAIN b \/ t = target))
       ELSE Takes(b, s, t)

\* A side could take the king of the other.
KingHangs(b, side) ==
  \E s \in Men(b, side), k \in DOMAIN b : b[k] = <<getOpponentColor(side), "K">> /\ Takes(b, s, k)

-----------------------------------------------------------------------------
ASSUME MaxPliesAssumption == MaxPlies \in Nat

\* Games begin from positions of the rules of chess: the engine checks none of it.
ASSUME StartsAssumption ==
  \A start \in Starts :
    /\ IsPosition(fenToBoardObject(start.rows), [r \in Rights |-> r \in start.rights], NoSquare, start.turn)
    /\ ~KingHangs(fenToBoardObject(start.rows), start.turn)

VARIABLES
  board,
  castlingRights,
  enPassantTarget,
  turn,
  plies     \* moves made (bound)

position == <<board, castlingRights, enPassantTarget, turn, plies>>

Game == [board |-> board, castlingRights |-> castlingRights, enPassantTarget |-> enPassantTarget]

\* A right ends when its king or its rook moves, or the rook is captured.
RightsAfter(from, to) ==
  [r \in Rights |-> /\ castlingRights[r]
                    /\ Corner(r) \notin {from, to}
                    /\ from # Home("e", r[1])]

\* The square a pawn has just jumped over.
JumpedOver(from, to) ==
  IF pieceType(board[from]) = "P" /\ to[1] - from[1] \in {-2, 2}
    THEN <<(from[1] + to[1]) \div 2, from[2]>> ELSE NoSquare

Promotions(piece, to) == IF requiresPromotion(piece, to) THEN PROMOTION_PIECES ELSE {"no"}

EndMove(from, to) ==
  /\ castlingRights' = RightsAfter(from, to)
  /\ enPassantTarget' = JumpedOver(from, to)
  /\ turn' = getOpponentColor(turn)
  /\ plies' = plies + 1

\* A legal move of one piece, with the promotion its player chooses.
Move(from, to, promotion) ==
  /\ plies < MaxPlies
  /\ to \in legalMoves(Game, from)
  /\ promotion \in Promotions(board[from], to)
  /\ board' = [simulateMove(board, from, to, enPassantTarget) EXCEPT
                 ![to] = IF promotion = "no" THEN @ ELSE resolvePromotionPiece(@, promotion)]
  /\ EndMove(from, to)

\* King and rook move together.
Castle(side) ==
  LET king == Home("e", turn)
      land == Home(Castlings[side].land, turn)
  IN /\ plies < MaxPlies
     /\ land \in getCastlingMoves(board, turn, castlingRights)
     /\ board' = simulateMove(simulateMove(board, king, land, NoSquare),
                              Corner(<<turn, side>>), Home(Castlings[side].beside, turn), NoSquare)
     /\ EndMove(king, land)

SetUp ==
  \E start \in Starts :
    /\ board = fenToBoardObject(start.rows)
    /\ castlingRights = [r \in Rights |-> r \in start.rights]
    /\ enPassantTarget = NoSquare
    /\ turn = start.turn
    /\ plies = 0

Ply ==
  \/ \E from \in Men(board, turn) : \E to \in legalMoves(Game, from) :
       \E promotion \in Promotions(board[from], to) : Move(from, to, promotion)
  \/ \E side \in DOMAIN Castlings : Castle(side)

LegalGame == SetUp /\ [][Ply]_position

-----------------------------------------------------------------------------
(***************************************************************************)
(* Properties                                                              *)
(***************************************************************************)
\* The game stays in positions.
PositionOK ==
  IsPosition(board, castlingRights, enPassantTarget, turn) /\ plies \in 0..MaxPlies

\* However a side moved (a pinned piece, a capture in passing that opens a rank,
\* a castling, a promotion), its own king cannot be taken on the next move.
LegalMovesKeepKing == ~KingHangs(board, turn)

\* isSquareAttacked says of every square, empty or not, what the rules say of it:
\* castling and king safety look at squares nobody stands on yet.
AttacksFollowRules ==
  \A c \in Colors : \A t \in Squares :
    isSquareAttacked(board, t, c) <=> \E s \in Men(board, c) : Takes(board, s, t)

\* getPseudoLegalMoves gives every piece of both sides the moves of the rules and
\* no other, by offsets and rays that stop at the first piece and at the edge.
MovesFollowRules ==
  \A s \in DOMAIN board :
    getPseudoLegalMoves(board, s, enPassantTarget) = {t \in Squares : MayGo(board, s, t, enPassantTarget)}

\* Every move and promotion choice of the side to move.
Moves ==
  {[from |-> m.from, to |-> m.to, piece |-> board[m.from],
    captured |-> \/ ~Empty(board, m.to)
                 \/ pieceType(board[m.from]) = "P" /\ m.to = enPassantTarget,
    castling |-> IF m.to \in legalMoves(Game, m.from) THEN "no"
                 ELSE CHOOSE side \in DOMAIN Castlings : Castlings[side].land = fileOf(m.to),
    promotion |-> "no"] : m \in getAllLegalMoves(Game, turn)}

WithPromotion(m) == {[m EXCEPT !.promotion = p] : p \in Promotions(m.piece, m.to)}

\* The text of a move identifies it among all legal moves of its position,
\* whatever shares its target, file or rank, also when it is a promotion.
SanIdentifiesMove ==
  LET all == UNION {WithPromotion(m) : m \in Moves}
      San(m) == buildSan(Game, m, [isCheck |-> FALSE, isCheckmate |-> FALSE])
  IN Cardinality({San(m) : m \in all}) = Cardinality(all)

\* No move saves the king from being taken: the rules' own words; of the engine
\* it takes the board that simulateMove leaves, and nothing else.
Lost(game, c) ==
  \A s \in Men(game.board, c), to \in Squares :
    MayGo(game.board, s, to, game.enPassantTarget) =>
      KingHangs(simulateMove(game.board, s, to, game.enPassantTarget), getOpponentColor(c))

\* The game ends exactly where no move saves the king: as a mate when the king
\* could be taken at once, as a stalemate when not.  A position where only a
\* capture in passing helps is neither.
GameEndAgrees ==
  LET taken == KingHangs(board, getOpponentColor(turn))
  IN /\ isCheckmate(Game, turn) <=> taken /\ Lost(Game, turn)
     /\ isStalemate(Game, turn) <=> ~taken /\ Lost(Game, turn)

\* A king castles neither out of check nor through one: it cannot be taken where
\* it stands, and may make the first step of the castling alone, so that the
\* square it passes is not attacked, now or once it stands there.
CastlingImpliesStep ==
  \A c \in Colors : \A side \in DOMAIN Castlings :
    Home(Castlings[side].land, c) \in getCastlingMoves(board, c, castlingRights) =>
      /\ ~KingHangs(board, getOpponentColor(c))
      /\ Home(Castlings[side].beside, c) \in legalMoves(Game, Home("e", c))
=============================================================================
