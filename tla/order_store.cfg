SPECIFICATION Spec
CONSTANTS
  o1 = o1
  o2 = o2
  post = post
  get = get
  h1 = h1
  h2 = h2
  api = api
  worker = worker
  Orders = {o1, o2}
  Requests = {post, get}
  Handlers = {h1, h2}
  Customer = get
  Processes = {api, worker}
  Server = Server
  Deployments <- MCDeployments
SYMMETRY Symmetry
INVARIANTS
  TypeOK
  EventWithOrder
PROPERTY
  ImplementsStore
