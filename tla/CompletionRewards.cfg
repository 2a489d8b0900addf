SPECIFICATION MCSpec
CONSTANTS
  anna = anna
  bert = bert
  l1 = l1
  l2 = l2
  l3 = l3
  Instructors = {anna, bert}
  ByLearner = {anna}
  Lessons = {l1, l2, l3}
  Teacher <- WhoTeaches
  Requests = {r1, r2}
  MaxCrashes = 1
  MaxReviews = 2
  MaxSales = 1
  Ends = {1}
  NoLesson = NoLesson
SYMMETRY Symmetry
INVARIANTS TypeOK CreditIsEarned LessonsAreSettled RewardedOnce BooksBalance
