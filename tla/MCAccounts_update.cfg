SPECIFICATION Spec
CONSTANTS
  h1 = h1
  h2 = h2
  ann = ann
  bob = bob
  tweets = tweets
  mail = mail
  secret = secret
  twitter = twitter
  blog = blog
  None = None
  Refused = Refused
  Handlers = {h1, h2}
  Users <- TwoUsers
  Logins = {tweets, mail}
  TwitterLogins = {tweets}
  Keys = {secret}
  Twitter = twitter
  OtherIds = {blog}
  Arriving <- MCArriving
  MaxCalls = 3
  MaxCrashes = 1
SYMMETRY MCSymmetry
INVARIANTS TypeOK ServiceOfItsUser AccountComplete DropsOneOfItsKind
PROPERTIES KeyKept BoundForGood
CHECK_DEADLOCK FALSE
